---- MODULE Spec2Model ----
(***************************************************************************)
(* chimerax-ome-zarr: the multiscale grid of src/map_data/zarr_grid.py.    *)
(*                                                                         *)
(*   ZarrGrid         one resolution level over one zarr array             *)
(*   WrappedZarrGrid  the multiplexer over all levels                      *)
(*   ZarrModel        the model built from an OME-Zarr group               *)
(*                                                                         *)
(* Specifications.                                                         *)
(*   Spec       a WrappedZarrGrid is constructed, queried and read         *)
(*   SpecGrid   a ZarrGrid is read on its own                              *)
(*   SpecCache  a ZarrModel is opened and read through its cached store    *)
(*   SpecConc   threads read through the cached store at the same time     *)
(*   SpecOpen   ZarrModel.__init__ on the metadata of a group              *)
(*   SpecFrame  a WrappedZarrGrid read with served and rejected steps      *)
(*                                                                         *)
(* Numbers.  A pixel size is a positive integer count of some length       *)
(* quantum.  A float quotient a / b is kept in millionths, rounded down    *)
(* (FloatDiv): the decisions the code takes on it (np.allclose with its    *)
(* default rtol = 1e-5 and atol = 1e-8, int()) are then integer            *)
(* arithmetic.  Axis triples are written in the order the code holds them. *)
(***************************************************************************)
EXTENDS Integers, Sequences, FiniteSets, TLC

VARIABLES
    mux,        \* the WrappedZarrGrid the caller holds, or NoObj
    grid,       \* a ZarrGrid opened on its own, or NoObj
    call,       \* the call in progress / last made: its name and arguments
    ret,        \* what that call returned or raised
    lru,        \* the LRUStoreCache: _values_cache of the cached store
    fetches,    \* how often the underlying store was asked for each key
    readers,    \* concurrent readers of the cached store: position and value
    zmodel,     \* the outcome of ZarrModel.__init__
    history     \* the reads made since the model was opened, with their blocks

vars == <<mux, grid, call, ret, lru, fetches, readers, zmodel, history>>

----------------------------------------------------------------------------
(* Bounds of the model.                                                    *)

MaxLevels == 3      \* levels of a pyramid handed to the multiplexer
MaxScale == 4       \* largest pixel size of a level, in units
MaxBase == 2        \* largest pixel size of the last (reference) level
MaxReqStep == 17    \* largest isotropic step a caller requests
MaxAniso == 2       \* smallest component of an anisotropic requested step
MaxAnisoB == 8      \* largest component of an anisotropic requested step
MaxOrigin == 8      \* largest requested origin component
MaxSize == 4        \* largest requested size component
FinestLen == 12     \* extent of the finest array along z and y (x is twice)
MaxExtent == 4      \* largest extent of an array read through a ZarrGrid alone
NegOrigin == 2      \* how far below 0 a requested origin component goes
MaxGridStep == 2    \* largest step component of a read of a ZarrGrid alone
BigSize == 100      \* a requested size far larger than any array
ChunkLen == 2       \* samples along each axis of a chunk
MaxReaders == 3     \* threads reading through the cached store at once
MaxOpenScale == 2   \* largest raw scale of the finest dataset, in units

(* One pixel-size unit in quanta, and the resolution of a quotient.        *)
Unit == 100 * 1000
Micro == 1000 * 1000

----------------------------------------------------------------------------
(* Tuples and arithmetic.                                                  *)

Min(a, b) == IF a < b THEN a ELSE b
Max(a, b) == IF a > b THEN a ELSE b
Abs(a) == IF a < 0 THEN -a ELSE a
Min3(t) == Min(t[1], Min(t[2], t[3]))
Axes == 1..3

\* t[::-1]
Rev(t) == <<t[3], t[2], t[1]>>

CeilDiv(a, b) == (a + b - 1) \div b

RECURSIVE Pow10(_)
Pow10(d) == IF d = 0 THEN 1 ELSE 10 * Pow10(d - 1)

\* Long division: the first d decimal digits of rem / b, for 0 <= rem < b.
RECURSIVE FracDigits(_, _, _)
FracDigits(rem, b, d) ==
    IF d = 0 THEN 0
    ELSE LET x == rem * 10
         IN  (x \div b) * Pow10(d - 1) + FracDigits(x % b, b, d - 1)

\* a / b of two positive numbers, in millionths.
FloatDiv(a, b) == (a \div b) * Micro + FracDigits(a % b, b, 6)

\* A whole number as a float, in millionths.
FloatOf(k) == k * Micro

\* int(x) of a non-negative float: truncation.
IntOf(x) == x \div Micro

\* np.allclose(a, b): |a - b| <= atol + rtol * |b|, atol = 1e-8, rtol = 1e-5.
\* In millionths, times 1e5: 1e5 * |a - b| <= 1000 + |b|.
IsClose(a, b) == Abs(a - b) <= (1000 + Abs(b)) \div 100000

\* np.allclose(vector, scalar)
AllClose(v, b) == \A a \in Axes : IsClose(v[a], b)

----------------------------------------------------------------------------
(* Values shared by the operations.                                        *)

NoObj == [kind |-> "none"]
NoCall == [op |-> "none"]
NoRet == [exc |-> "pending"]
None == <<>>
Unused == "unused"

\* A zarr array: its path in the group, its shape (z, y, x) and its dtype.
Array(path, shape, dtype) == [path |-> path, shape |-> shape, dtype |-> dtype]

----------------------------------------------------------------------------
(* ZarrGrid: one level.                                                    *)

\* ZarrGrid.__init__: GridData gets shape, origin and step reversed.
ZarrGridInit(array, origin, step) ==
    [data |-> array, size |-> Rev(array.shape),
     origin |-> Rev(origin), step |-> Rev(step)]

\* The indices data[start:stop:step] selects along an axis of length n
\* (slice.indices, as zarr applies it; step >= 1).
SliceIndices(start, stop, step, n) ==
    LET lo == IF start < 0 THEN Max(start + n, 0) ELSE Min(start, n)
        hi == IF stop < 0 THEN Max(stop + n, 0) ELSE Min(stop, n)
        cnt == IF hi > lo THEN CeilDiv(hi - lo, step) ELSE 0
    IN  [k \in 1..cnt |-> lo + (k - 1) * step]

\* Faulty variant: lines 292-294 without the reversal of line 293.
LimitOriginUnreversed(sz, ijk_origin) ==
    [i \in Axes |-> Min(sz[i] - 1, ijk_origin[i])]

\* Lines 292-294: the origin reversed to (z, y, x) and limited to an index
\* inside the grid.
LimitOrigin(sz, ijk_origin) ==
    LET o == Rev(ijk_origin)
    IN  [i \in Axes |-> Min(sz[i] - 1, o[i])]

\* Lines 299-304: the stop coordinate of the slice.
LimitSize(sz, o, size) ==
    IF size = None THEN sz
    ELSE LET s == Rev(size)
         IN  [i \in Axes |-> Min(sz[i], o[i] + s[i])]

\* Lines 312-315: float16 is returned as float32.
Promote(dtype) == IF dtype = "float16" THEN "float32" ELSE dtype

\* ZarrGrid.read_matrix: the block read, as the indices taken on each axis
\* of the array (z, y, x).
GridReadMatrix(g, ijk_origin, ijk_size, ijk_step) ==
    LET sz == Rev(g.size)
        o == LimitOrigin(sz, ijk_origin)
        st == Rev(ijk_step)
        e == LimitSize(sz, o, ijk_size)
    IN  IF \E i \in Axes : st[i] < 1
        THEN [exc |-> "IndexError"]
        ELSE [exc |-> "none",
              path |-> g.data.path,
              dtype |-> Promote(g.data.dtype),
              idx |-> [i \in Axes |-> SliceIndices(o[i], e[i], st[i], sz[i])]]

----------------------------------------------------------------------------
(* WrappedZarrGrid: the multiplexer.                                       *)

\* range(1, 17) of line 392: the isotropic steps with a precomputed strategy.
StratMax == 16

\* Line 347: relstep of a level against the last level's step.
RelStep(s, base_step) == [a \in Axes |-> FloatDiv(s[a], base_step[a])]

\* Lines 349-358: what the checks of one level raise.
CheckRelStep(r) ==
    IF ~AllClose(r, r[1]) THEN "anisotropic"
    ELSE IF ~AllClose(r, FloatOf(IntOf(r[1]))) THEN "noninteger"
    ELSE "ok"

\* Line 360: the factor stored for a level.
StoredFactor(r) == [a \in Axes |-> IntOf(r[a])]

\* Faulty variant: lines 346-360 with each level checked against the level after it
\* instead of against the last one.
RECURSIVE FirstBadLevelConsecutive(_, _)
FirstBadLevelConsecutive(steps, i) ==
    IF i > Len(steps) THEN 0
    ELSE IF CheckRelStep(RelStep(steps[i], steps[Min(i + 1, Len(steps))])) # "ok"
         THEN i
    ELSE FirstBadLevelConsecutive(steps, i + 1)

\* Lines 346-360: the first level, in list order, whose check raises (0: none).
RECURSIVE FirstBadLevel(_, _)
FirstBadLevel(steps, i) ==
    IF i > Len(steps) THEN 0
    ELSE IF CheckRelStep(RelStep(steps[i], steps[Len(steps)])) # "ok" THEN i
    ELSE FirstBadLevel(steps, i + 1)

\* Line 416 for one level: "yes", "no", or "zde" when minstep % 0 is evaluated.
\* all() stops at the first false element.
RECURSIVE ModAll(_, _, _)
ModAll(f, minstep, a) ==
    IF a > 3 THEN "yes"
    ELSE IF f[a] = 0 THEN "zde"
    ELSE IF minstep % f[a] # 0 THEN "no"
    ELSE ModAll(f, minstep, a + 1)

\* Faulty variant: line 416 with minstep > s in place of minstep >= s.
LevelQualifiesStrict(f, minstep) ==
    IF ~(\A a \in Axes : minstep > f[a]) THEN "no" ELSE ModAll(f, minstep, 1)

LevelQualifies(f, minstep) ==
    IF ~(\A a \in Axes : minstep >= f[a]) THEN "no" ELSE ModAll(f, minstep, 1)

\* Lines 411-419: the loop over the levels from index 0, breaking at the first
\* that qualifies; index 0 stays when none does.  -1: ZeroDivisionError.
RECURSIVE ScanLevels(_, _, _)
ScanLevels(rel, minstep, i) ==
    IF i > Len(rel) THEN 1
    ELSE LET q == LevelQualifies(rel[i], minstep)
         IN  IF q = "zde" THEN -1
             ELSE IF q = "yes" THEN i
             ELSE ScanLevels(rel, minstep, i + 1)

SelectLevel(rel, minstep) == ScanLevels(rel, minstep, 1)

Raised(e) == [exc |-> e]

\* WrappedZarrGrid.get_sampling_strategy: the grid (by its index), the step
\* inside it and the factors to divide origin and size by.
get_sampling_strategy(rel, ijk_step) ==
    LET minstep == Min3(ijk_step)
    IN  IF minstep = 0 THEN Raised("ZeroDivisionError")
        ELSE IF \E a \in Axes : ijk_step[a] % minstep # 0 THEN Raised("ValueError")
        ELSE LET g == SelectLevel(rel, minstep)
             IN  IF g = -1 THEN Raised("ZeroDivisionError")
                 ELSE IF \E a \in Axes : rel[g][a] = 0 THEN Raised("ZeroDivisionError")
                 ELSE [exc |-> "none",
                       grid_idx |-> g,
                       ijk_step |-> [a \in Axes |->
                                       IntOf(FloatDiv(ijk_step[a], rel[g][a]))],
                       facts |-> rel[g]]

\* Lines 391-393: the precomputed strategies.
Strats(rel) == [s \in 1..StratMax |-> get_sampling_strategy(rel, <<s, s, s>>)]

\* WrappedZarrGrid.__init__(arrays, steps=steps): the exception raised and the
\* object the caller receives.
WrappedZarrGridInit(arrays, steps) ==
    LET n == Len(steps)
        bad == FirstBadLevel(steps, 1)
        rel == [i \in 1..n |-> StoredFactor(RelStep(steps[i], steps[n]))]
        strats == Strats(rel)
    IN  IF bad # 0
        THEN [exc |-> "NotImplementedError",
              why |-> CheckRelStep(RelStep(steps[bad], steps[n])),
              obj |-> NoObj]
        ELSE IF \E s \in 1..StratMax : strats[s].exc # "none"
        THEN [exc |-> "ZeroDivisionError", why |-> "strategy", obj |-> NoObj]
        ELSE [exc |-> "none", why |-> "ok",
              obj |-> [kind |-> "WrappedZarrGrid",
                       rel_step_sizes |-> rel,
                       size |-> Rev(arrays[n].shape),
                       step |-> Rev(steps[n]),
                       grids |-> [i \in 1..n |->
                                    ZarrGridInit(arrays[i], <<0, 0, 0>>, Rev(steps[i]))],
                       strats |-> strats]]

\* Faulty variant: lines 434-438 left out: the size is passed on as requested.
WidenSizeNot(ijk_size, ijk_step) == ijk_size

\* Lines 434-438: a size smaller than the step is widened to the step.
WidenSize(ijk_size, ijk_step) ==
    [a \in Axes |-> IF ijk_size[a] < ijk_step[a] THEN ijk_step[a] ELSE ijk_size[a]]

\* Line 441: dict.get(key, default) evaluates its default first, so the
\* selection runs on every read; the table's entry wins when the key is there.
LookupStrategy(m, ijk_step) ==
    LET computed == get_sampling_strategy(m.rel_step_sizes, ijk_step)
        iso == ijk_step[1] = ijk_step[2] /\ ijk_step[2] = ijk_step[3]
    IN  IF computed.exc # "none" THEN computed
        ELSE IF iso /\ ijk_step[1] \in DOMAIN m.strats THEN m.strats[ijk_step[1]]
        ELSE computed

\* Faulty variant: line 441 as a setdefault, which keeps the strategy computed
\* for an isotropic step the table does not hold.
SelfAfterReadCaching(m, ijk_step) ==
    LET s == ijk_step[1]
        computed == get_sampling_strategy(m.rel_step_sizes, ijk_step)
    IN  IF ijk_step = <<s, s, s>> /\ s \notin DOMAIN m.strats /\ computed.exc = "none"
        THEN [m EXCEPT !.strats =
                 [k \in DOMAIN m.strats \cup {s} |->
                     IF k = s THEN computed ELSE m.strats[k]]]
        ELSE m

\* Lines 427-446 assign no attribute of self: dict.get of line 441 does not
\* insert, and the strategy computed for the step is a local value.
SelfAfterRead(m, ijk_step) == m

\* WrappedZarrGrid.read_matrix: what is delegated to which grid, how often the
\* selection ran, and the block returned.
read_matrix(m, ijk_origin, ijk_size, ijk_step) ==
    IF ijk_size = None THEN [exc |-> "TypeError", selects |-> 0]
    ELSE
    LET size == WidenSize(ijk_size, ijk_step)
        strat == LookupStrategy(m, ijk_step)
    IN  IF strat.exc # "none" THEN [exc |-> strat.exc, selects |-> 1]
        ELSE LET o == [a \in Axes |-> ijk_origin[a] \div strat.facts[a]]
                 sz == [a \in Axes |-> size[a] \div strat.facts[a]]
                 blk == GridReadMatrix(m.grids[strat.grid_idx], o, sz, strat.ijk_step)
             IN  [exc |-> blk.exc,
                  selects |-> 1,
                  grid_idx |-> strat.grid_idx,
                  origin |-> o, size |-> sz, step |-> strat.ijk_step,
                  facts |-> strat.facts,
                  block |-> blk]

----------------------------------------------------------------------------
(* The pyramids and requests of the multiplexer's specification.           *)

ExactVals == {m * Unit : m \in 1..MaxScale}

\* Pixel sizes (z, y, x) of the reference level and of the other levels.
BaseSteps == {<<j * Unit, j * Unit, k * Unit>> : j \in 1..MaxBase, k \in 1..MaxBase}
ExactLevelSteps == {<<x, x, y>> : x \in ExactVals, y \in ExactVals}
\* Sizes one quantum off a whole unit: quotients within allclose's tolerance.
NearLevelSteps ==
    {<<x + d, x, x + e>> : x \in ExactVals, d \in {-1, 0, 1}, e \in {-1, 0, 1}}

CoarseLists == UNION {[1..n -> ExactLevelSteps] : n \in 0..(MaxLevels - 1)}

CtorSteps ==
    {Append(c, b) : c \in CoarseLists, b \in BaseSteps}
    \cup {<<p, b>> : p \in NearLevelSteps, b \in BaseSteps}

\* The arrays of a pyramid: every level covers the extent of the finest one.
FinestShape == <<FinestLen, FinestLen, 2 * FinestLen>>

LevelShape(s, base_step) ==
    [a \in Axes |-> Max(1, CeilDiv(FinestShape[a] * base_step[a], s[a]))]

ArraysFor(steps) ==
    [i \in 1..Len(steps) |->
        Array(i, LevelShape(steps[i], steps[Len(steps)]), "float32")]

ReqSteps ==
    {<<s, s, s>> : s \in 1..MaxReqStep}
    \cup {<<a, a, b>> : a \in 1..MaxAniso, b \in 1..MaxAnisoB}

OriginVals == {3, MaxOrigin}
ReqOrigins == {<<a, b, b>> : a \in OriginVals, b \in OriginVals}
SizeVals == {1, MaxSize}
ReqSizes == {<<a, a, b>> : a \in SizeVals, b \in SizeVals} \cup {None}

----------------------------------------------------------------------------
(* Specification Spec: a caller constructs a multiplexer and reads from it.*)

Init ==
    /\ mux = NoObj
    /\ grid = Unused
    /\ call = NoCall
    /\ ret = NoRet
    /\ lru = Unused
    /\ fetches = Unused
    /\ readers = Unused
    /\ zmodel = Unused
    /\ history = Unused

\* WrappedZarrGrid(arrays, steps=steps)
Construct ==
    /\ call = NoCall /\ mux = NoObj
    /\ \E steps \in CtorSteps :
         LET r == WrappedZarrGridInit(ArraysFor(steps), steps)
         IN  /\ call' = [op |-> "init", steps |-> steps]
             /\ ret' = [exc |-> r.exc, why |-> r.why]
             /\ mux' = r.obj
    /\ UNCHANGED <<grid, lru, fetches, readers, zmodel, history>>

\* mux.get_sampling_strategy(ijk_step)
Select ==
    /\ mux # NoObj /\ call.op \in {"init", "none"}
    /\ \E st \in ReqSteps :
         /\ call' = [op |-> "select", ijk_step |-> st]
         /\ ret' = get_sampling_strategy(mux.rel_step_sizes, st)
    /\ UNCHANGED <<mux, grid, lru, fetches, readers, zmodel, history>>

\* mux.read_matrix(ijk_origin, ijk_size, ijk_step)
ReadMatrix ==
    /\ mux # NoObj /\ call.op \in {"init", "none"}
    /\ \E o \in ReqOrigins, sz \in ReqSizes, st \in ReqSteps :
         /\ call' = [op |-> "read", ijk_origin |-> o, ijk_size |-> sz, ijk_step |-> st]
         /\ ret' = read_matrix(mux, o, sz, st)
    /\ UNCHANGED <<mux, grid, lru, fetches, readers, zmodel, history>>

\* The caller takes the result; the next call can be made.
Return ==
    /\ call.op \in {"select", "read"}
    /\ call' = NoCall
    /\ ret' = NoRet
    /\ UNCHANGED <<mux, grid, lru, fetches, readers, zmodel, history>>

Next == Construct \/ Select \/ ReadMatrix \/ Return

Spec == Init /\ [][Next]_vars

----------------------------------------------------------------------------
(* Properties of the multiplexer, checked under Spec.                      *)

\* A step select accepts: positive components, all multiples of the smallest.
AcceptedStep(st) ==
    /\ \A a \in Axes : st[a] >= 1
    /\ \A a \in Axes : st[a] % Min3(st) = 0

\* Factor f is adequate for a smallest step m, stated on every axis.
Adequate(f, m) == \A a \in Axes : f[a] >= 1 /\ m >= f[a] /\ m % f[a] = 0

\* Factor f is strictly larger than factor g.
LargerFactor(f, g) == (\A a \in Axes : f[a] >= g[a]) /\ (\E a \in Axes : f[a] > g[a])

\* A strategy s is the first adequate level of rel for the step st.
FirstAdequate(rel, st, s) ==
    /\ s.exc = "none"
    /\ s.grid_idx \in 1..Len(rel)
    /\ s.facts = rel[s.grid_idx]
    /\ Adequate(rel[s.grid_idx], Min3(st))
    /\ \A j \in 1..(s.grid_idx - 1) : ~Adequate(rel[j], Min3(st))

\* C1: on a constructed multiplexer, select on an accepted step returns the
\* first level in list order whose factor is at most min(step) and divides it
\* on every axis; the last level has factor 1 and always qualifies.  The same
\* holds of each of the 16 precomputed strategies.
C1_SelectFirstQualifying ==
    mux # NoObj =>
        /\ Adequate(mux.rel_step_sizes[Len(mux.rel_step_sizes)], 1)
        /\ \A s \in 1..StratMax :
             FirstAdequate(mux.rel_step_sizes, <<s, s, s>>, mux.strats[s])
        /\ (call.op = "select" /\ AcceptedStep(call.ijk_step)) =>
             FirstAdequate(mux.rel_step_sizes, call.ijk_step, ret)

\* C1 witness: select on the anisotropic step (2,2,4) of a three-level pyramid
\* returned the middle level, the first one to qualify.
C1_Witness ==
    /\ mux # NoObj /\ Len(mux.rel_step_sizes) = 3
    /\ call.op = "select" /\ call.ijk_step = <<2, 2, 4>>
    /\ ret.exc = "none" /\ ret.grid_idx = 2 /\ ret.facts = <<2, 2, 2>>

\* The chosen level of a select is adequate and no adequate level of the
\* pyramid has a strictly larger factor.
ChoseCoarsest ==
    /\ ret.exc = "none"
    /\ Adequate(ret.facts, Min3(call.ijk_step))
    /\ \A j \in 1..Len(mux.rel_step_sizes) :
         Adequate(mux.rel_step_sizes[j], Min3(call.ijk_step))
            => ~LargerFactor(mux.rel_step_sizes[j], ret.facts)

\* The levels were passed coarsest first.
CoarsestFirst(rel) ==
    \A i \in 1..Len(rel), j \in 1..Len(rel) :
        i < j => \A a \in Axes : rel[i][a] >= rel[j][a]

\* C2: for every pyramid the constructor accepts, in whatever order
\* the levels were passed, select returns the coarsest adequate level.
C2_CoarsestForEveryOrder ==
    (mux # NoObj /\ call.op = "select" /\ AcceptedStep(call.ijk_step))
        => ChoseCoarsest

\* Lemma to C2: select does return the coarsest adequate level when the
\* levels were passed coarsest first.
C2_CoarsestWhenCoarsestFirst ==
    (mux # NoObj /\ call.op = "select" /\ AcceptedStep(call.ijk_step)
        /\ CoarsestFirst(mux.rel_step_sizes))
        => ChoseCoarsest

\* A state of that lemma: a pyramid passed coarsest first with factors 4, 2, 1; step 6
\* skips the factor-4 level, which does not divide it, and takes factor 2.
C2_CoarsestFirstCase ==
    /\ mux # NoObj
    /\ mux.rel_step_sizes = <<<<4, 4, 4>>, <<2, 2, 2>>, <<1, 1, 1>>>>
    /\ call.op = "select" /\ call.ijk_step = <<6, 6, 6>>
    /\ ret.exc = "none" /\ ret.grid_idx = 2

\* C3: a read with an accepted step delegates to the level select chooses,
\* with origin // factor, max(size, step) // factor and step / factor, where
\* the residual step times the factor is the step and is at least 1, and
\* returns that level's block; with factors (4,2,1) the read of origin
\* (8,8,8), size (4,4,4), step (4,4,4) goes to the factor-4 level with origin
\* (2,2,2), size (1,1,1), step (1,1,1).
C3_ReadRemaps ==
    (mux # NoObj /\ call.op = "read" /\ call.ijk_size # None
        /\ AcceptedStep(call.ijk_step)) =>
        /\ ret.exc = "none"
        /\ FirstAdequate(mux.rel_step_sizes, call.ijk_step,
                         [exc |-> "none", grid_idx |-> ret.grid_idx, facts |-> ret.facts])
        /\ \A a \in Axes :
             /\ ret.origin[a] = call.ijk_origin[a] \div ret.facts[a]
             /\ ret.size[a] = Max(call.ijk_size[a], call.ijk_step[a]) \div ret.facts[a]
             /\ ret.step[a] * ret.facts[a] = call.ijk_step[a]
             /\ ret.step[a] >= 1
        /\ ret.block.exc = "none"
        /\ ret.block.path = mux.grids[ret.grid_idx].data.path
        /\ (/\ mux.rel_step_sizes = <<<<4, 4, 4>>, <<2, 2, 2>>, <<1, 1, 1>>>>
            /\ call.ijk_origin = <<8, 8, 8>> /\ call.ijk_size = <<4, 4, 4>>
            /\ call.ijk_step = <<4, 4, 4>>)
           => (/\ ret.grid_idx = 1 /\ ret.origin = <<2, 2, 2>>
               /\ ret.size = <<1, 1, 1>> /\ ret.step = <<1, 1, 1>>)

\* C3 witness: the read of the example was made and a size below the step was
\* widened in another one.
C3_Witness ==
    /\ mux # NoObj
    /\ mux.rel_step_sizes = <<<<4, 4, 4>>, <<2, 2, 2>>, <<1, 1, 1>>>>
    /\ call.op = "read"
    /\ call.ijk_origin = <<8, 8, 8>> /\ call.ijk_size = <<4, 4, 4>>
    /\ call.ijk_step = <<4, 4, 4>>
    /\ ret.exc = "none" /\ ret.grid_idx = 1 /\ ret.origin = <<2, 2, 2>>

\* The pixel sizes passed are k times the last level's on every axis, for the
\* factors k of the sequence ks.
HasFactors(steps, ks) ==
    /\ Len(steps) = Len(ks)
    /\ \A i \in 1..Len(steps), a \in Axes :
         steps[i][a] = ks[i] * steps[Len(steps)][a]

Quotients(s, base) == [a \in Axes |-> FloatDiv(s[a], base[a])]
ExactlyWhole(s, base) ==
    /\ \A a \in Axes : s[a] % base[a] = 0
    /\ \A a \in Axes : s[a] \div base[a] = s[1] \div base[1]
WithinTolerance(s, base) ==
    /\ \A a \in Axes : IsClose(Quotients(s, base)[a], Quotients(s, base)[1])
    /\ \A a \in Axes : IsClose(Quotients(s, base)[a], FloatOf(s[1] \div base[1]))
Truncated(s, base) == [a \in Axes |-> s[a] \div base[a]]

\* A level whose truncated factor holds a 0 is reached by the precomputation
\* of step 1: no level of factor 1 precedes it.
ZeroFactorReached(steps) ==
    \E i \in 1..Len(steps) :
        /\ \E a \in Axes : Truncated(steps[i], steps[Len(steps)])[a] = 0
        /\ \A j \in 1..(i - 1) : Truncated(steps[j], steps[Len(steps)]) # <<1, 1, 1>>

\* C5: construction succeeds exactly when every level's ratio to
\* the last level has three equal components whose value is an integer; the
\* stored factor is then that integer on all axes and (1,1,1) for the last
\* level; otherwise the rejection is raised and no multiplexer exists.
C5_ExactIntegerRatio ==
    call.op = "init" =>
        LET n == Len(call.steps)
            whole == \A i \in 1..n : ExactlyWhole(call.steps[i], call.steps[n])
        IN  /\ (ret.exc = "none") <=> whole
            /\ ret.exc = "none" =>
                 /\ mux # NoObj
                 /\ \A i \in 1..n, a \in Axes :
                      mux.rel_step_sizes[i][a] = call.steps[i][1] \div call.steps[n][1]
                 /\ mux.rel_step_sizes[n] = <<1, 1, 1>>
            /\ ret.exc # "none" => (ret.exc = "NotImplementedError" /\ mux = NoObj)

\* Lemma to C5, what the code decides: construction succeeds exactly when,
\* for every level, the three components of its ratio agree with the first
\* within allclose's tolerance
\* and with the first truncated to an integer, and no level with a truncated
\* factor 0 is reached by the precomputation; the stored factor is the
\* truncated ratio of each axis and (1,1,1) for the last level; on failure
\* the caller holds no multiplexer, and the error is the rejection unless the
\* checks passed, when it is the division by the zero factor.
C5_RatioWithinTolerance ==
    call.op = "init" =>
        LET n == Len(call.steps)
            pass == \A i \in 1..n : WithinTolerance(call.steps[i], call.steps[n])
        IN  /\ (ret.exc = "none") <=> (pass /\ ~ZeroFactorReached(call.steps))
            /\ ret.exc = "none" =>
                 /\ mux.kind = "WrappedZarrGrid"
                 /\ mux.rel_step_sizes =
                       [i \in 1..n |-> Truncated(call.steps[i], call.steps[n])]
                 /\ mux.rel_step_sizes[n] = <<1, 1, 1>>
                 /\ Len(mux.grids) = n
                 /\ DOMAIN mux.strats = 1..StratMax
            /\ ret.exc # "none" =>
                 /\ mux = NoObj
                 /\ ~pass => ret.exc = "NotImplementedError"
                 /\ pass => ret.exc = "ZeroDivisionError"

\* A state of that lemma: a level one quantum above four units was accepted
\* with factor 4, and the multiplexer holds its grids and strategies.
C5_ToleranceCase ==
    /\ call.op = "init" /\ Len(call.steps) = 2
    /\ call.steps[1] = <<4 * Unit, 4 * Unit, 4 * Unit + 1>>
    /\ call.steps[2] = <<Unit, Unit, Unit>>
    /\ ret.exc = "none" /\ mux.rel_step_sizes[1] = <<4, 4, 4>>

----------------------------------------------------------------------------
(* Specification SpecGrid: a ZarrGrid opened on one array and read with    *)
(* origins below, inside and beyond the array.                             *)

GridShapes == {<<n, n, n + 1>> : n \in 1..MaxExtent}
GridDtypes == {"float16", "float32"}

GridOriginVals == (-NegOrigin)..(MaxExtent + 2)
GridOrigins == {<<a, b, b>> : a \in GridOriginVals, b \in GridOriginVals}
GridSizeVals == {0, 2, BigSize}
GridSizes == {<<a, b, b>> : a \in GridSizeVals, b \in GridSizeVals} \cup {None}
GridSteps == {<<a, b, b>> : a \in 1..MaxGridStep, b \in 1..MaxGridStep}

InitGrid ==
    /\ mux = Unused
    /\ grid = NoObj
    /\ call = NoCall
    /\ ret = NoRet
    /\ lru = Unused
    /\ fetches = Unused
    /\ readers = Unused
    /\ zmodel = Unused
    /\ history = Unused

\* ZarrGrid(array, step=size)
GridOpen ==
    /\ grid = NoObj
    /\ \E sh \in GridShapes, dt \in GridDtypes :
         grid' = ZarrGridInit(Array(1, sh, dt), <<0, 0, 0>>, <<Unit, Unit, Unit>>)
    /\ UNCHANGED <<mux, call, ret, lru, fetches, readers, zmodel, history>>

\* grid.read_matrix(ijk_origin, ijk_size, ijk_step)
GridRead ==
    /\ grid # NoObj /\ call = NoCall
    /\ \E o \in GridOrigins, sz \in GridSizes, st \in GridSteps :
         /\ call' = [op |-> "gridread", ijk_origin |-> o, ijk_size |-> sz,
                     ijk_step |-> st]
         /\ ret' = GridReadMatrix(grid, o, sz, st)
    /\ UNCHANGED <<mux, grid, lru, fetches, readers, zmodel, history>>

\* The caller takes the block.
GridReturn ==
    /\ call.op = "gridread"
    /\ call' = NoCall
    /\ ret' = NoRet
    /\ UNCHANGED <<mux, grid, lru, fetches, readers, zmodel, history>>

NextGrid == GridOpen \/ GridRead \/ GridReturn

SpecGrid == InitGrid /\ [][NextGrid]_vars

\* The extent of the array along axis i of (z, y, x) and the origin requested
\* on that axis.
Extent(i) == grid.data.shape[i]
OriginOn(i) == Rev(call.ijk_origin)[i]
SizeOn(i) == Rev(call.ijk_size)[i]
ClampedOrigin(i) == Min(Max(OriginOn(i), 0), Extent(i) - 1)

\* C6: a read with a non-negative origin, any size and a positive step does
\* not raise, takes only indices up to extent - 1 on every axis and returns
\* on each axis at most the extent remaining after the clamped origin.
C6_ReadStaysInside ==
    (call.op = "gridread" /\ \A a \in Axes : call.ijk_origin[a] >= 0) =>
        /\ ret.exc = "none"
        /\ \A i \in Axes :
             /\ \A k \in 1..Len(ret.idx[i]) :
                  ret.idx[i][k] >= 0 /\ ret.idx[i][k] <= Extent(i) - 1
             /\ Len(ret.idx[i]) <= Extent(i) - ClampedOrigin(i)

\* C6 witness: on an array of x-extent N = 4, the read of origin (N-1, 0, 0),
\* size (100, 100, 100), step (1, 1, 1) returned one sample along x and the
\* whole extent along y and z.
C6_Witness ==
    /\ grid # NoObj /\ grid.data.shape = <<3, 3, 4>>
    /\ call.op = "gridread"
    /\ call.ijk_origin = <<3, 0, 0>>
    /\ call.ijk_size = <<100, 100, 100>>
    /\ call.ijk_step = <<1, 1, 1>>
    /\ ret.exc = "none"
    /\ ret.idx = <<<<0, 1, 2>>, <<0, 1, 2>>, <<3>>>>

\* C7: every origin component o, negative ones and ones beyond the extent
\* included, is clamped to [0, extent - 1]: the read does not raise and the
\* first index it takes on the axis is min(max(o, 0), extent - 1).
C7_OriginClampedIntoGrid ==
    (call.op = "gridread"
        /\ (call.ijk_size = None \/ \A a \in Axes : call.ijk_size[a] >= 1)) =>
        /\ ret.exc = "none"
        /\ \A i \in Axes :
             Len(ret.idx[i]) >= 1 /\ ret.idx[i][1] = ClampedOrigin(i)

\* The clamp that line 294 applies, from above only: it is the one of C7 for
\* the origins that are not negative.
C7_ClampedFromAbove ==
    (call.op = "gridread"
        /\ (call.ijk_size = None \/ \A a \in Axes : call.ijk_size[a] >= 1)
        /\ \A a \in Axes : call.ijk_origin[a] >= 0) =>
        /\ ret.exc = "none"
        /\ \A i \in Axes :
             Len(ret.idx[i]) >= 1 /\ ret.idx[i][1] = ClampedOrigin(i)

----------------------------------------------------------------------------
(* ZarrModel: the model opened on an OME-Zarr group.                       *)

\* Values of Python that a pixel size can turn out to be: a float or an int
\* (v in quanta), or the string "angstrom" repeated v times.
PyFloat(v) == [ty |-> "float", v |-> v]
PyInt(v) == [ty |-> "int", v |-> v]
PyStr(n) == [ty |-> "str", v |-> n]

\* The table of unit factors: floats, all of them whole.
UNITFACTOR == [angstrom |-> 1, nm |-> 10, um |-> 10000, mm |-> 10000000]

\* UNITFACTOR.get(unit, "angstrom"): the factor of a unit of the table, the
\* string "angstrom" for any other unit.
UnitFactorGet(unit) ==
    IF unit \in DOMAIN UNITFACTOR
    THEN [ty |-> "float", times |-> UNITFACTOR[unit]]
    ELSE PyStr(1)

\* get_unit_factor: axes 0, 1 and 2 are looked up.
get_unit_factor(ms) ==
    IF Len(ms.axes) < 3 THEN [exc |-> "IndexError"]
    ELSE [exc |-> "none", val |-> [a \in Axes |-> UnitFactorGet(ms.axes[a].unit)]]

\* get_pixelsize: the first three components of each dataset's scale.
get_pixelsize(ms) ==
    [i \in 1..Len(ms.datasets) |-> [a \in Axes |-> ms.datasets[i].scale[a]]]

\* ufacs[a] * s[a] of line 170: float * number is a float, str * int repeats
\* the string, str * float is a TypeError.
PyMul(u, s) ==
    IF u.ty = "float" THEN [exc |-> "none", val |-> PyFloat(u.times * s.v)]
    ELSE IF s.ty = "int" THEN [exc |-> "none", val |-> PyStr(u.v * (s.v \div Unit))]
    ELSE [exc |-> "TypeError"]

\* Line 170: the pixel sizes of all levels, or the first error.
ScaleSizes(ufacs, sizes) ==
    IF \E i \in 1..Len(sizes), a \in Axes : PyMul(ufacs[a], sizes[i][a]).exc # "none"
    THEN [exc |-> "TypeError"]
    ELSE [exc |-> "none",
          val |-> [i \in 1..Len(sizes) |->
                     [a \in Axes |-> PyMul(ufacs[a], sizes[i][a]).val]]]

\* parse_multiscales: None when the attributes have no "multiscales" key.
parse_multiscales(zattrs) ==
    IF "multiscales" \notin zattrs.keys THEN NoObj
    ELSE [kind |-> "Multiscales",
          axes |-> zattrs.multiscales.axes,
          datasets |-> zattrs.multiscales.datasets]

\* Array.nbytes: the number of samples times the size of one.
ItemSize(dtype) == IF dtype = "float16" THEN 2 ELSE 4
NBytes(array) == array.shape[1] * array.shape[2] * array.shape[3] * ItemSize(array.dtype)

\* sorted(..., key=nbytes): stable, ascending.
RECURSIVE InsertByNBytes(_, _)
InsertByNBytes(sorted, x) ==
    IF sorted = <<>> THEN <<x>>
    ELSE LET last == sorted[Len(sorted)]
         IN  IF NBytes(last.array) <= NBytes(x.array) THEN Append(sorted, x)
             ELSE Append(InsertByNBytes(SubSeq(sorted, 1, Len(sorted) - 1), x), last)

RECURSIVE SortedByNBytes(_)
SortedByNBytes(items) ==
    IF items = <<>> THEN <<>>
    ELSE InsertByNBytes(SortedByNBytes(SubSeq(items, 1, Len(items) - 1)),
                        items[Len(items)])

\* The bytes the store holds under a chunk key, and a chunk of fill values.
StoreValue(key) == [stored_at |-> key]
FillValue == [stored_at |-> "nowhere"]

\* zarr.LRUStoreCache(store, max_size): _values_cache is ordered from the
\* least to the most recently used entry.  max_size is None or <<n>>, n in
\* chunks.
LRUStoreCacheInit(store, max_size) ==
    [kind |-> "LRUStoreCache", store |-> store, max_size |-> max_size,
     values |-> <<>>]

CachedKeys(c) == {c.values[i].key : i \in DOMAIN c.values}

\* _cache_value: with max_size None nothing is ever evicted; otherwise the
\* least recently used entries make room.
CacheValue(c, key, value) ==
    LET entry == [key |-> key, value |-> value]
    IN  IF c.max_size = None THEN [c EXCEPT !.values = Append(@, entry)]
        ELSE IF c.max_size[1] < 1 THEN c
        ELSE LET keep == Min(Len(c.values), c.max_size[1] - 1)
                 n == Len(c.values)
             IN  [c EXCEPT !.values = Append(SubSeq(@, n - keep + 1, n), entry)]

\* LRUStoreCache.__getitem__: a hit moves the entry to the end; a miss asks
\* the store and caches what it returns; a key the store does not hold is a
\* KeyError and nothing is cached.
LRUGetItem(c, key) ==
    IF key \in CachedKeys(c)
    THEN LET i == CHOOSE j \in DOMAIN c.values : c.values[j].key = key
             rest == [j \in 1..(Len(c.values) - 1) |->
                        IF j < i THEN c.values[j] ELSE c.values[j + 1]]
         IN  [exc |-> "none", value |-> c.values[i].value, fetched |-> FALSE,
              cache |-> [c EXCEPT !.values = Append(rest, c.values[i])]]
    ELSE IF key \in c.store.missing
    THEN [exc |-> "KeyError", value |-> FillValue, fetched |-> FALSE, cache |-> c]
    ELSE [exc |-> "none", value |-> StoreValue(key), fetched |-> TRUE,
          cache |-> CacheValue(c, key, StoreValue(key))]

\* Faulty variant: the cache of lines 173-176 bounded to one chunk.
NewCachedStoreBounded(root) == LRUStoreCacheInit(root, <<1>>)

\* Lines 173-176: zarr.LRUStoreCache(root, max_size=None).
NewCachedStore(root) == LRUStoreCacheInit(root, None)

\* What ZarrModel.__init__ has made when it returns or raises: the line that
\* raised, the pixel sizes of line 170, the cached store, the multiplexer or
\* the grids, and the volumes added to the model.
Outcome(exc, line, sizes, cache, wrapped, grids, vols) ==
    [exc |-> exc, line |-> line, sizes |-> sizes, cache |-> cache,
     mux |-> wrapped, grids |-> grids, vols |-> vols]

\* A pixel size component as the grids get it.
StepValue(x) == IF x.ty = "str" THEN x ELSE x.v

\* Lines 198-205 and 224-231: the slice in the middle of the volume.
MiddleSlice(size, ijk_step) ==
    << <<0, 0, size[3] \div 2>>, <<size[1], size[2], size[3] \div 2>>, ijk_step >>

\* Lines 172-233: the cached store, the arrays sorted by size, and either one
\* WrappedZarrGrid over all of them or one ZarrGrid per requested scale.
OpenCached(root, mlt, sizes, scales, initial_step) ==
    LET cache == NewCachedStore(root)
        arrays_cached == root.arrays
        n == Len(arrays_cached)
    IN  IF n # Len(mlt.datasets)
        THEN Outcome("ValueError", 181, sizes, cache, NoObj, <<>>, <<>>)
        ELSE
        LET items == SortedByNBytes([i \in 1..n |->
                        [array |-> arrays_cached[i], dataset |-> mlt.datasets[i],
                         size |-> sizes[i]]])
        IN  IF scales = None
            THEN LET ijk_step == IF initial_step = None THEN <<4, 4, 4>> ELSE initial_step
                     arrays == [i \in 1..n |-> items[i].array]
                     strs == \E i \in 1..n, a \in Axes : items[i].size[a].ty = "str"
                     steps == [i \in 1..n |-> [a \in Axes |-> items[i].size[a].v]]
                     w == WrappedZarrGridInit(arrays, steps)
                 IN  IF strs
                     THEN Outcome("TypeError", 195, sizes, cache, NoObj, <<>>, <<>>)
                     ELSE IF w.exc # "none"
                     THEN Outcome(w.exc, 195, sizes, cache, NoObj, <<>>, <<>>)
                     ELSE Outcome("none", 0, sizes, cache, w.obj, <<>>,
                                  << [data |-> "wrapped",
                                      region |-> MiddleSlice(w.obj.size, ijk_step)] >>)
            ELSE LET ijk_step == IF initial_step = None THEN <<1, 1, 1>> ELSE initial_step
                     wanted == SelectSeq(items,
                                 LAMBDA it : \E k \in DOMAIN scales : scales[k] = it.dataset.path)
                     grids == [i \in 1..Len(wanted) |->
                                 ZarrGridInit(wanted[i].array, <<0, 0, 0>>,
                                    [a \in Axes |-> StepValue(wanted[i].size[a])])]
                 IN  Outcome("none", 0, sizes, cache, NoObj, grids,
                             [i \in 1..Len(wanted) |->
                                [data |-> i,
                                 region |-> MiddleSlice(grids[i].size, ijk_step)]])

\* Faulty variant: lines 141-148 without the test of lines 147-148, so that
\* only the axis types named channel and time are rejected.
CheckAxisTypesNamedOnly(types) ==
    IF "channel" \in types THEN [exc |-> "NotImplementedError", line |-> 142]
    ELSE IF "time" \in types THEN [exc |-> "NotImplementedError", line |-> 145]
    ELSE [exc |-> "none", line |-> 0]

\* Lines 141-148: a channel axis, a time axis, any other axis not in space.
CheckAxisTypes(types) ==
    IF "channel" \in types THEN [exc |-> "NotImplementedError", line |-> 142]
    ELSE IF "time" \in types THEN [exc |-> "NotImplementedError", line |-> 145]
    ELSE IF \E ty \in types : ty # "space" THEN [exc |-> "ValueError", line |-> 148]
    ELSE [exc |-> "none", line |-> 0]

\* ZarrModel.__init__(name, session, root, scales, initial_step).  Line 141
\* reads mlt.axes, so the test of line 164 is never reached with mlt None.
ZarrModelInit(root, zattrs, scales, initial_step) ==
    LET mlt == parse_multiscales(zattrs)
        raised(e, ln) == Outcome(e, ln, <<>>, NoObj, NoObj, <<>>, <<>>)
    IN  IF mlt = NoObj THEN raised("AttributeError", 141)
        ELSE
        LET types == {mlt.axes[i].type : i \in DOMAIN mlt.axes}
            avail_scales == {mlt.datasets[i].path : i \in DOMAIN mlt.datasets}
            ufacs == get_unit_factor(mlt)
            sizes == ScaleSizes(ufacs.val, get_pixelsize(mlt))
            axis == CheckAxisTypes(types)
        IN  IF axis.exc # "none" THEN raised(axis.exc, axis.line)
            ELSE IF \E k \in DOMAIN scales : scales[k] \notin avail_scales
            THEN raised("ValueError", 158)
            ELSE IF ufacs.exc # "none" THEN raised(ufacs.exc, 55)
            ELSE IF sizes.exc # "none" THEN raised(sizes.exc, 170)
            ELSE OpenCached(root, mlt, sizes.val, scales, initial_step)

\* The chunks a slice touches along one axis, and the keys of the chunks a
\* block is read from.  Every array is chunked ChunkLen samples per axis.
ChunkNumbers(idx) == {idx[k] \div ChunkLen : k \in DOMAIN idx}

ChunkKeySet(blk) ==
    {<<blk.path, cz, cy, cx>> : cz \in ChunkNumbers(blk.idx[1]),
                                cy \in ChunkNumbers(blk.idx[2]),
                                cx \in ChunkNumbers(blk.idx[3])}

\* The order in which the array asks for its chunks.
KeyLess(a, b) ==
    \/ a[2] < b[2]
    \/ a[2] = b[2] /\ a[3] < b[3]
    \/ a[2] = b[2] /\ a[3] = b[3] /\ a[4] < b[4]

RECURSIVE KeySeq(_)
KeySeq(S) ==
    IF S = {} THEN <<>>
    ELSE LET k == CHOOSE x \in S : \A y \in S : x = y \/ KeyLess(x, y)
         IN  <<k>> \o KeySeq(S \ {k})

\* The chunks of a block, one store access each; a chunk the store does not
\* hold reads as fill values.
RECURSIVE GetChunks(_, _, _)
GetChunks(c, keys, got) ==
    IF keys = <<>> THEN [cache |-> c, got |-> got]
    ELSE LET r == LRUGetItem(c, Head(keys))
         IN  GetChunks(r.cache, Tail(keys),
                       Append(got, [key |-> Head(keys), value |-> r.value,
                                    fetched |-> r.fetched]))

\* self.data[o:e:s] of lines 306-310 on an array of the cached store: the
\* samples of the block come from the chunks the cache hands out.
ArrayGetItem(c, blk) ==
    IF blk.exc # "none" THEN [cache |-> c, fetched |-> {}, block |-> blk]
    ELSE LET r == GetChunks(c, KeySeq(ChunkKeySet(blk)), <<>>)
         IN  [cache |-> r.cache,
              fetched |-> {r.got[i].key : i \in {j \in DOMAIN r.got : r.got[j].fetched}},
              block |-> [exc |-> "none", path |-> blk.path, dtype |-> blk.dtype,
                         idx |-> blk.idx,
                         chunks |-> [i \in DOMAIN r.got |->
                                       [key |-> r.got[i].key, value |-> r.got[i].value]]]]

----------------------------------------------------------------------------
(* Specification SpecCache: a ZarrModel is opened on a two-level pyramid   *)
(* and read, one read at a time, through its cached store.                 *)

\* The group: array "0" is the finest level, array "1" has half its extent.
CacheFinest == <<ChunkLen, 2 * ChunkLen, 2 * ChunkLen>>
CacheArrays ==
    << Array("0", CacheFinest, "float32"),
       Array("1", [a \in Axes |-> CeilDiv(CacheFinest[a], 2)], "float32") >>

SpaceAxes(units) ==
    [a \in Axes |-> [name |-> <<"z", "y", "x">>[a], unit |-> units[a], type |-> "space"]]

CacheAttrs ==
    [keys |-> {"multiscales"},
     multiscales |->
        [axes |-> SpaceAxes(<<"angstrom", "angstrom", "angstrom">>),
         datasets |->
            << [path |-> "0", scale |-> [a \in Axes |-> PyFloat(Unit)]],
               [path |-> "1", scale |-> [a \in Axes |-> PyFloat(2 * Unit)]] >>]]

\* The chunk keys of the group, and the stores: one holds every chunk, one
\* lacks the first chunk of the finest array.
KeysOf(array) ==
    {<<array.path, cz, cy, cx>> :
        cz \in 0..((array.shape[1] - 1) \div ChunkLen),
        cy \in 0..((array.shape[2] - 1) \div ChunkLen),
        cx \in 0..((array.shape[3] - 1) \div ChunkLen)}
CacheKeys == UNION {KeysOf(CacheArrays[i]) : i \in DOMAIN CacheArrays}
CacheRoots ==
    {[arrays |-> CacheArrays, missing |-> m] : m \in {{}, {<<"0", 0, 0, 0>>}}}

CacheScales == {None, <<"0">>}
CacheOrigins == {<<0, 0, 0>>, <<ChunkLen, ChunkLen, 0>>}
CacheSizes == {<<1, 1, 1>>, <<2 * ChunkLen, 2 * ChunkLen, ChunkLen>>}
CacheSteps == {<<1, 1, 1>>, <<2, 2, 2>>}

InitCache ==
    /\ mux = NoObj
    /\ grid = NoObj
    /\ call = NoCall
    /\ ret = NoRet
    /\ lru = NoObj
    /\ fetches = [k \in CacheKeys |-> 0]
    /\ readers = Unused
    /\ zmodel = NoObj
    /\ history = {}

\* ZarrModel(name, session, root, scales)
CacheOpen ==
    /\ zmodel = NoObj
    /\ \E root \in CacheRoots, scales \in CacheScales :
         LET r == ZarrModelInit(root, CacheAttrs, scales, <<1, 1, 1>>)
         IN  /\ zmodel' = r
             /\ lru' = r.cache
             /\ mux' = r.mux
             /\ grid' = IF r.grids = <<>> THEN NoObj ELSE r.grids[1]
             /\ call' = [op |-> "open", scales |-> scales]
             /\ ret' = [exc |-> r.exc]
    /\ UNCHANGED <<fetches, readers, history>>

\* What a read through the cached store leaves: the cache, the count of
\* store fetches, the block returned and the record of the read.
ReadThrough(op, args, outer, blk) ==
    LET g == ArrayGetItem(lru, blk)
    IN  /\ lru' = g.cache
        /\ fetches' = [k \in CacheKeys |->
                         IF k \in g.fetched THEN fetches[k] + 1 ELSE fetches[k]]
        /\ ret' = [outer EXCEPT !.block = g.block]
        /\ call' = [op |-> op, args |-> args,
                    again |-> \E h \in history : h.args = args]
        /\ history' = IF \E h \in history : h.args = args THEN history
                      ELSE history \cup {[args |-> args, block |-> g.block]}

\* The Volume reads through the WrappedZarrGrid of the model.
CacheReadWrapped ==
    /\ mux # NoObj /\ call.op \in {"open", "none"}
    /\ \E o \in CacheOrigins, sz \in CacheSizes, st \in CacheSteps :
         LET r == read_matrix(mux, o, sz, st)
         IN  ReadThrough("cread", <<o, sz, st>>, r, r.block)
    /\ UNCHANGED <<mux, grid, readers, zmodel>>

\* The Volume reads through the ZarrGrid of the requested scale.
CacheReadGrid ==
    /\ grid # NoObj /\ call.op \in {"open", "none"}
    /\ \E o \in CacheOrigins, sz \in CacheSizes, st \in CacheSteps :
         LET b == GridReadMatrix(grid, o, sz, st)
         IN  ReadThrough("cread", <<o, sz, st>>, [exc |-> b.exc, block |-> b], b)
    /\ UNCHANGED <<mux, grid, readers, zmodel>>

\* The caller takes the block.
CacheReturn ==
    /\ call.op = "cread"
    /\ call' = NoCall
    /\ ret' = NoRet
    /\ UNCHANGED <<mux, grid, lru, fetches, readers, zmodel, history>>

NextCache == CacheOpen \/ CacheReadWrapped \/ CacheReadGrid \/ CacheReturn

SpecCache == InitCache /\ [][NextCache]_vars

\* C8: in any sequence of reads on one opened pyramid, a read with the
\* arguments of an earlier read returns the block the earlier one returned;
\* no chunk is fetched from the underlying store more than once; and a chunk
\* once fetched is in the cache ever after: nothing is evicted.
C8_ReadsIdempotentThroughCache ==
    lru # NoObj =>
        /\ \A k \in CacheKeys :
             /\ fetches[k] <= 1
             /\ fetches[k] = 1 <=> k \in CachedKeys(lru)
        /\ call.op = "cread" =>
             \A h \in history : h.args = call.args => h.block = ret.block

\* C8 witness: a read repeated after reads of other regions returned a block
\* of several chunks, none of them fetched again.
C8_Witness ==
    /\ call.op = "cread" /\ call.again
    /\ ret.exc = "none" /\ Len(ret.block.chunks) >= 2
    /\ \A i \in DOMAIN ret.block.chunks : fetches[ret.block.chunks[i].key] = 1
    /\ Cardinality(CachedKeys(lru)) > Len(ret.block.chunks)

----------------------------------------------------------------------------
(* Specification SpecConc: several threads read chunks of the pyramid of   *)
(* SpecCache through the one cached store.  A thread's access is           *)
(* LRUStoreCache.__getitem__: the lookup and the insertion each hold the   *)
(* cache's mutex, the fetch from the store in between holds no lock.       *)

Readers == 1..MaxReaders
ConcKeys == {<<"0", 0, 0, 0>>, <<"1", 0, 0, 0>>}
Idle == [pc |-> "idle", key |-> None, value |-> None]

InitConc ==
    /\ mux = Unused
    /\ grid = Unused
    /\ call = Unused
    /\ ret = Unused
    /\ lru = NewCachedStore([arrays |-> CacheArrays, missing |-> {}])
    /\ fetches = [k \in CacheKeys |-> 0]
    /\ readers = [r \in Readers |-> Idle]
    /\ zmodel = Unused
    /\ history = Unused

\* A thread's read reaches chunk_store[key].
ConcRequest(r) ==
    /\ readers[r].pc = "idle"
    /\ \E k \in ConcKeys :
         readers' = [readers EXCEPT ![r] = [pc |-> "lookup", key |-> k, value |-> None]]
    /\ UNCHANGED <<mux, grid, call, ret, lru, fetches, zmodel, history>>

\* with self._mutex: value = self._values_cache[key]; move_to_end(key)
ConcLookup(r) ==
    /\ readers[r].pc = "lookup"
    /\ IF readers[r].key \in CachedKeys(lru)
       THEN LET g == LRUGetItem(lru, readers[r].key)
            IN  /\ lru' = g.cache
                /\ readers' = [readers EXCEPT ![r].pc = "done", ![r].value = g.value]
       ELSE /\ readers' = [readers EXCEPT ![r].pc = "fetch"]
            /\ UNCHANGED lru
    /\ UNCHANGED <<mux, grid, call, ret, fetches, zmodel, history>>

\* except KeyError: value = self._store[key]
ConcFetch(r) ==
    /\ readers[r].pc = "fetch"
    /\ fetches' = [fetches EXCEPT ![readers[r].key] = @ + 1]
    /\ readers' = [readers EXCEPT ![r].pc = "insert",
                                  ![r].value = StoreValue(readers[r].key)]
    /\ UNCHANGED <<mux, grid, call, ret, lru, zmodel, history>>

\* with self._mutex: if key not in self._values_cache: self._cache_value(...)
ConcInsert(r) ==
    /\ readers[r].pc = "insert"
    /\ lru' = IF readers[r].key \in CachedKeys(lru) THEN lru
              ELSE CacheValue(lru, readers[r].key, readers[r].value)
    /\ readers' = [readers EXCEPT ![r].pc = "done"]
    /\ UNCHANGED <<mux, grid, call, ret, fetches, zmodel, history>>

NextConc ==
    \E r \in Readers :
        ConcRequest(r) \/ ConcLookup(r) \/ ConcFetch(r) \/ ConcInsert(r)

SpecConc == InitConc /\ [][NextConc]_vars

\* C9: when several readers request the same chunk that was never fetched,
\* under every interleaving the store is asked for it exactly once and all
\* of them receive the same data.
C9_SingleFlight ==
    \A k \in ConcKeys :
        LET asking == {r \in Readers : readers[r].pc # "idle" /\ readers[r].key = k}
            served == {r \in asking : readers[r].pc = "done"}
        IN  /\ fetches[k] <= 1
            /\ served # {} => fetches[k] = 1
            /\ \A r \in served, q \in served : readers[r].value = readers[q].value

\* What the code does guarantee: all readers of a key receive the same data,
\* the store is asked at most once per reader that missed, and fetches of
\* different keys run side by side.
ConcSameData ==
    \A k \in ConcKeys :
        LET asking == {r \in Readers : readers[r].pc # "idle" /\ readers[r].key = k}
        IN  /\ fetches[k] <= Cardinality(asking)
            /\ \A r \in asking :
                 readers[r].pc = "done" => readers[r].value = StoreValue(k)

----------------------------------------------------------------------------
(* Specification SpecOpen: ZarrModel.__init__ on the metadata a group can  *)
(* carry.                                                                  *)

\* Units of the table and units it does not hold ("nanometer" and
\* "micrometer" are the names OME-Zarr itself uses).
OpenUnits == {"angstrom", "nm", "nanometer", "micrometer"}
OpenTypes == {"space", "channel", "time", "frequency"}

\* Axis lists: (z, y, x) of every type with the default unit, (z, y, x) in
\* space with every unit, (y, x) alone, and (t, c, z, y, x).
OpenAxes ==
    {[a \in Axes |-> [name |-> <<"z", "y", "x">>[a], unit |-> "angstrom", type |-> ty[a]]] :
        ty \in [Axes -> OpenTypes]}
    \cup {SpaceAxes(<<u, v, v>>) : u \in OpenUnits, v \in OpenUnits}
    \cup {<< [name |-> "y", unit |-> "angstrom", type |-> "space"],
             [name |-> "x", unit |-> "angstrom", type |-> "space"] >>}
    \cup {<< [name |-> "t", unit |-> "second", type |-> "time"],
             [name |-> "c", unit |-> "angstrom", type |-> "channel"] >>
          \o SpaceAxes(<<"angstrom", "angstrom", "angstrom">>)}

\* A raw scale of k units on every axis, as the JSON number it was: 2 or 2.0.
OpenScale(kind, k, n) ==
    [a \in 1..n |-> IF kind = "int" THEN PyInt(k * Unit) ELSE PyFloat(k * Unit)]

\* Datasets "0" and "1", the second twice as coarse as the first.
OpenDatasets(kind, k, n) ==
    << [path |-> "0", scale |-> OpenScale(kind, k, n)],
       [path |-> "1", scale |-> OpenScale(kind, 2 * k, n)] >>

OpenAttrs ==
    {[keys |-> {"multiscales"},
      multiscales |-> [axes |-> ax, datasets |-> OpenDatasets(kind, k, Len(ax))]] :
        ax \in OpenAxes, kind \in {"int", "float"}, k \in 1..MaxOpenScale}
    \cup {[keys |-> {"labels"}]}

OpenRoots == {[arrays |-> CacheArrays, missing |-> {}],
              [arrays |-> <<CacheArrays[1]>>, missing |-> {}]}
OpenScales == {None, <<"0">>, <<"1", "7">>}
OpenInitialSteps == {None, <<1, 1, 1>>}

InitOpen ==
    /\ mux = NoObj
    /\ grid = NoObj
    /\ call = NoCall
    /\ ret = NoRet
    /\ lru = NoObj
    /\ fetches = Unused
    /\ readers = Unused
    /\ zmodel = NoObj
    /\ history = Unused

\* ZarrModel(name, session, root, scales, initial_step)
Open ==
    /\ call = NoCall
    /\ \E root \in OpenRoots, zattrs \in OpenAttrs, scales \in OpenScales,
          initial_step \in OpenInitialSteps :
         LET r == ZarrModelInit(root, zattrs, scales, initial_step)
         IN  /\ call' = [op |-> "open", root |-> root, zattrs |-> zattrs,
                         scales |-> scales, initial_step |-> initial_step]
             /\ ret' = [exc |-> r.exc, line |-> r.line]
             /\ zmodel' = r
             /\ lru' = r.cache
             /\ mux' = r.mux
             /\ grid' = IF r.grids = <<>> THEN NoObj ELSE r.grids[1]
    /\ UNCHANGED <<fetches, readers, history>>

\* The session drops the model, or the failed call is over.
Close ==
    /\ call.op = "open"
    /\ call' = NoCall
    /\ ret' = NoRet
    /\ zmodel' = NoObj
    /\ lru' = NoObj
    /\ mux' = NoObj
    /\ grid' = NoObj
    /\ UNCHANGED <<fetches, readers, history>>

NextOpen == Open \/ Close

SpecOpen == InitOpen /\ [][NextOpen]_vars

\* The pixel sizes are computed when the metadata is there, every axis is in
\* space and the requested scales exist.
ReachesPixelSizes ==
    /\ call.op = "open"
    /\ "multiscales" \in call.zattrs.keys
    /\ Len(call.zattrs.multiscales.axes) = 3
    /\ \A a \in Axes : call.zattrs.multiscales.axes[a].type = "space"
    /\ \A k \in DOMAIN call.scales :
         \E d \in DOMAIN call.zattrs.multiscales.datasets :
            call.zattrs.multiscales.datasets[d].path = call.scales[k]

\* The factor of the claim: the table's for a unit it holds, 1.0 otherwise.
PermissiveFactor(unit) == IF unit \in DOMAIN UNITFACTOR THEN UNITFACTOR[unit] ELSE 1

ExpectedSizes ==
    LET ms == call.zattrs.multiscales
    IN  [i \in 1..Len(ms.datasets) |->
            [a \in Axes |->
                PyFloat(PermissiveFactor(ms.axes[a].unit) * ms.datasets[i].scale[a].v)]]

\* C10: computing the pixel sizes raises no error, and the size of a level
\* on an axis is its raw scale times the table's factor of the axis' unit,
\* times 1.0 when the table does not hold the unit.
C10_UnknownUnitIsBaseUnit ==
    ReachesPixelSizes =>
        /\ ~(zmodel.exc # "none" /\ zmodel.line \in {55, 170})
        /\ zmodel.sizes = ExpectedSizes

\* What the code does: with every unit in the table the sizes are the raw
\* scales times the factors; with a unit outside it, float scales end in a
\* TypeError at line 170 and int scales in repetitions of "angstrom".
OpenKnownUnits ==
    ReachesPixelSizes =>
        LET ms == call.zattrs.multiscales
            known == \A a \in Axes : ms.axes[a].unit \in DOMAIN UNITFACTOR
            floats == ms.datasets[1].scale[1].ty = "float"
        IN  /\ known => (zmodel.line # 170 /\ zmodel.sizes = ExpectedSizes)
            /\ (~known /\ floats) => (zmodel.exc = "TypeError" /\ zmodel.line = 170)
            /\ (~known /\ ~floats) =>
                 /\ zmodel.line # 170
                 /\ \E a \in Axes : zmodel.sizes[1][a].ty = "str"

\* The axis types of the descriptor that was opened.
OpenAxisTypes ==
    {call.zattrs.multiscales.axes[i].type : i \in DOMAIN call.zattrs.multiscales.axes}

\* C11: when the descriptor has an axis that is not in space, the model's
\* construction raises its rejection (NotImplementedError for channel and
\* time, ValueError for any other type) with no cached store, no grid, no
\* multiplexer and no volume made; a cached store, a grid, a multiplexer or
\* a volume exists only when every axis is in space.
C11_NonSpaceAxisRejectedFirst ==
    (call.op = "open" /\ "multiscales" \in call.zattrs.keys) =>
        /\ OpenAxisTypes # {"space"} =>
             /\ zmodel.exc \in {"NotImplementedError", "ValueError"}
             /\ zmodel.line \in {142, 145, 148}
             /\ (zmodel.exc = "ValueError") <=>
                   (OpenAxisTypes \cap {"channel", "time"} = {})
             /\ zmodel.cache = NoObj /\ lru = NoObj
             /\ zmodel.mux = NoObj /\ mux = NoObj
             /\ zmodel.grids = <<>> /\ grid = NoObj
             /\ zmodel.vols = <<>>
        /\ (zmodel.cache # NoObj \/ zmodel.mux # NoObj \/ zmodel.grids # <<>>
               \/ zmodel.vols # <<>> \/ zmodel.exc = "none")
             => OpenAxisTypes = {"space"}

\* C11 witness: axes (space, frequency, space), neither channel nor time,
\* were rejected with nothing made, although the requested scale exists.
C11_Witness ==
    /\ call.op = "open" /\ "multiscales" \in call.zattrs.keys
    /\ Len(call.zattrs.multiscales.axes) = 3
    /\ call.zattrs.multiscales.axes[1].type = "space"
    /\ call.zattrs.multiscales.axes[2].type = "frequency"
    /\ call.zattrs.multiscales.axes[3].type = "space"
    /\ call.scales = <<"0">>
    /\ zmodel.exc = "ValueError" /\ zmodel.line = 148 /\ zmodel.cache = NoObj

----------------------------------------------------------------------------
(* Specification SpecFrame: a multiplexer is constructed and then read and *)
(* queried any number of times, with steps it serves from its table, steps *)
(* it computes on demand and steps it rejects.  history keeps the object   *)
(* as constructed and whether a read was rejected since.                   *)

\* Pyramids of one, two and three levels, coarsest first.
FramePyramids ==
    { <<<<Unit, Unit, Unit>>>>,
      <<<<2 * Unit, 2 * Unit, 2 * Unit>>, <<Unit, Unit, Unit>>>>,
      <<<<4 * Unit, 4 * Unit, 4 * Unit>>, <<2 * Unit, 2 * Unit, 2 * Unit>>,
        <<Unit, Unit, Unit>>>> }

\* Steps of the table, one beyond it, anisotropic ones, and ones that are not
\* multiples of their smallest component.
FrameSteps ==
    { <<1, 1, 1>>, <<4, 4, 4>>, <<StratMax, StratMax, StratMax>>,
      <<StratMax + 1, StratMax + 1, StratMax + 1>>,
      <<2, 2, 4>>, <<4, 8, 4>>, <<2, 2, 3>>, <<2, 3, 4>> }
FrameOrigins == {<<0, 0, 0>>, <<3, 5, 8>>}
FrameSizes == {<<1, 1, 1>>, <<4, 4, 6>>}

InitFrame ==
    /\ mux = NoObj
    /\ grid = Unused
    /\ call = NoCall
    /\ ret = NoRet
    /\ lru = Unused
    /\ fetches = Unused
    /\ readers = Unused
    /\ zmodel = Unused
    /\ history = NoObj

\* WrappedZarrGrid(arrays, steps=steps)
FrameConstruct ==
    /\ call = NoCall /\ mux = NoObj
    /\ \E steps \in FramePyramids :
         LET r == WrappedZarrGridInit(ArraysFor(steps), steps)
         IN  /\ call' = [op |-> "init", steps |-> steps]
             /\ ret' = [exc |-> r.exc, why |-> r.why]
             /\ mux' = r.obj
             /\ history' = [built |-> r.obj, rejected |-> FALSE]
    /\ UNCHANGED <<grid, lru, fetches, readers, zmodel>>

\* mux.get_sampling_strategy(ijk_step)
FrameSelect ==
    /\ mux # NoObj /\ call.op \in {"init", "none"}
    /\ \E st \in FrameSteps :
         LET r == get_sampling_strategy(mux.rel_step_sizes, st)
         IN  /\ call' = [op |-> "select", ijk_step |-> st]
             /\ ret' = r
             /\ history' = [history EXCEPT !.rejected = @ \/ r.exc = "ValueError"]
    /\ UNCHANGED <<mux, grid, lru, fetches, readers, zmodel>>

\* mux.read_matrix(ijk_origin, ijk_size, ijk_step)
FrameRead ==
    /\ mux # NoObj /\ call.op \in {"init", "none"}
    /\ \E o \in FrameOrigins, sz \in FrameSizes, st \in FrameSteps :
         LET r == read_matrix(mux, o, sz, st)
         IN  /\ call' = [op |-> "read", ijk_origin |-> o, ijk_size |-> sz,
                         ijk_step |-> st]
             /\ ret' = r
             /\ mux' = SelfAfterRead(mux, st)
             /\ history' = [history EXCEPT !.rejected = @ \/ r.exc = "ValueError"]
    /\ UNCHANGED <<grid, lru, fetches, readers, zmodel>>

\* The caller takes the result or catches the error.
FrameReturn ==
    /\ call.op \in {"select", "read"}
    /\ call' = NoCall
    /\ ret' = NoRet
    /\ UNCHANGED <<mux, grid, lru, fetches, readers, zmodel, history>>

NextFrame == FrameConstruct \/ FrameSelect \/ FrameRead \/ FrameReturn

SpecFrame == InitFrame /\ [][NextFrame]_vars

\* C12: after construction the multiplexer is read-only. Over any sequence
\* of reads, those rejected for a step that is not a multiple of its smallest
\* component and those with anisotropic or out-of-range steps included, the
\* grids, the factors and the strategy table are as constructed, the table
\* has exactly the keys 1..16, and a read returns what it returns on the
\* multiplexer as constructed, whatever was rejected before.
C12_ReadOnlyAfterConstruction ==
    mux # NoObj =>
        /\ mux = history.built
        /\ DOMAIN mux.strats = 1..16
        /\ call.op = "read" =>
             ret = read_matrix(history.built, call.ijk_origin, call.ijk_size,
                               call.ijk_step)

\* C12 witness: after a rejected read, a read with the out-of-range step
\* (17,17,17) returned its block on a pyramid of three levels.
C12_Witness ==
    /\ mux # NoObj /\ call.op = "read"
    /\ history.rejected
    /\ call.ijk_step = <<17, 17, 17>>
    /\ Len(mux.grids) = 3
    /\ ret.exc = "none"

\* The step of the read is a key of the strategy table.
StepInTable ==
    /\ call.ijk_step[1] = call.ijk_step[2] /\ call.ijk_step[2] = call.ijk_step[3]
    /\ call.ijk_step[1] \in 1..16

\* C13: a read whose step is (s,s,s) with s in 1..16 is served from the
\* strategy table and one delegated read, without running the selection over
\* the levels; the selection runs during a read only when the step is
\* anisotropic or outside 1..16.
C13_TableReadsSkipSelection ==
    (mux # NoObj /\ call.op = "read" /\ ret.exc = "none") =>
        /\ StepInTable => ret.selects = 0
        /\ ~StepInTable => ret.selects = 1

\* What the code does: line 441 evaluates the selection as the default of
\* dict.get on every read, and uses the table's entry when the key is there.
ReadSelectsEveryTime ==
    (mux # NoObj /\ call.op = "read" /\ ret.exc = "none") =>
        /\ ret.selects = 1
        /\ StepInTable =>
             /\ ret.grid_idx = mux.strats[call.ijk_step[1]].grid_idx
             /\ ret.step = mux.strats[call.ijk_step[1]].ijk_step
             /\ ret.facts = mux.strats[call.ijk_step[1]].facts

\* C14: a group whose attributes have no "multiscales" key is tolerated: the
\* parser returns None and the model's construction returns normally, with
\* no grid, no multiplexer and no volume made.
C14_NoMultiscalesTolerated ==
    (call.op = "open" /\ "multiscales" \notin call.zattrs.keys) =>
        /\ parse_multiscales(call.zattrs) = NoObj
        /\ zmodel.exc = "none"
        /\ zmodel.mux = NoObj /\ zmodel.grids = <<>> /\ zmodel.vols = <<>>

\* What the code does: the parser returns None, and line 141 reads the axes
\* of None before the test of line 164; nothing was made by then.
NoMultiscalesRaises ==
    (call.op = "open" /\ "multiscales" \notin call.zattrs.keys) =>
        /\ parse_multiscales(call.zattrs) = NoObj
        /\ zmodel.exc = "AttributeError" /\ zmodel.line = 141
        /\ zmodel.cache = NoObj
        /\ zmodel.mux = NoObj /\ zmodel.grids = <<>> /\ zmodel.vols = <<>>

\* A read that succeeded, with an origin and a size inside the extent of the
\* last (finest) level.
ReadInsideFinest ==
    /\ mux # NoObj /\ call.op = "read" /\ call.ijk_size # None
    /\ ret.exc = "none"
    /\ \A a \in Axes :
         /\ call.ijk_origin[a] >= 0
         /\ call.ijk_origin[a] + call.ijk_size[a] <= mux.size[a]

\* The samples per axis (z, y, x) of the block the multiplexer returned, of
\* the block the finest level returns for the same origin, widened size and
\* step, and the number ceil(max(size, step) / step).
SamplesReturned == [i \in Axes |-> Len(ret.block.idx[i])]
SamplesOfFinest ==
    LET direct == GridReadMatrix(mux.grids[Len(mux.grids)], call.ijk_origin,
                                 WidenSize(call.ijk_size, call.ijk_step), call.ijk_step)
    IN  [i \in Axes |-> Len(direct.idx[i])]
SamplesAsked ==
    LET w == Rev(WidenSize(call.ijk_size, call.ijk_step))
    IN  [i \in Axes |-> CeilDiv(w[i], Rev(call.ijk_step)[i])]

\* C15: switching the level keeps the shape of the block: a read inside the
\* finest extent returns, on each axis, as many samples as the finest level
\* returns for the same origin, max(size, step) and step, which is
\* ceil(max(size, step) / step), whichever level was selected and whether or
\* not origin and size are multiples of its factor.
C15_BlockShapePreserved ==
    ReadInsideFinest =>
        /\ SamplesReturned = SamplesOfFinest
        /\ SamplesReturned = SamplesAsked

\* What the code does keep: the shape is that of the finest level when the
\* widened size is a multiple of the selected level's factor on every axis.
ShapeKeptForWholeSizes ==
    (ReadInsideFinest
        /\ \A a \in Axes :
             WidenSize(call.ijk_size, call.ijk_step)[a] % ret.facts[a] = 0) =>
        /\ SamplesReturned = SamplesOfFinest
        /\ SamplesReturned = SamplesAsked

====
